---- MODULE Spec2Model ----
(***************************************************************************)
(* Model of pkg/daemon/ovs.go: configureNic / deleteNic of the CNI server  *)
(* handler, with the kernel link table, the network namespaces and the     *)
(* ovs-vsctl port table of br-int as the shared external state.            *)
(*                                                                         *)
(* Every call of the netlink library, of the ns package and of ovs-vsctl   *)
(* is one atomic step; a call of configureNic or deleteNic is the sequence *)
(* of steps its code prescribes.  Strings that the code slices or parses   *)
(* (containerID, mac, ip) are sequences of one-character strings.          *)
(***************************************************************************)
EXTENDS Integers, Sequences, FiniteSets, TLC

VARIABLES links, ports, nextIndex, ncalls, provisioned, call, callers

vars == <<links, ports, nextIndex, ncalls, provisioned, call, callers>>

(***************************************************************************)
(* Bounds of the model.                                                    *)
(***************************************************************************)
MaxCalls == 3
MaxConcCalls == 2

Procs == {1, 2}
SeqProcs == {1}

(***************************************************************************)
(* Inputs.                                                                 *)
(***************************************************************************)
\* "abc123def456ghi789"
ID_A == <<"a","b","c","1","2","3","d","e","f","4","5","6","g","h","i","7","8","9">>
\* "abc123def456zzz": another container whose first 12 characters are ID_A's
ID_B == <<"a","b","c","1","2","3","d","e","f","4","5","6","z","z","z">>
\* "0f9e8d7c6b5a4321"
ID_C == <<"0","f","9","e","8","d","7","c","6","b","5","a","4","3","2","1">>
ContainerIDs == {ID_A, ID_B, ID_C}

\* "02:11:22:33:44:55"
MAC_OK == <<"0","2",":","1","1",":","2","2",":","3","3",":","4","4",":","5","5">>
\* "not-a-mac"
MAC_BAD == <<"n","o","t","-","a","-","m","a","c">>
MACs == {MAC_OK, MAC_BAD}

\* "10.0.0.5/24"
IP_OK == <<"1","0",".","0",".","0",".","5","/","2","4">>
\* "10.0.0.5" (no prefix length)
IP_BAD == <<"1","0",".","0",".","0",".","5">>
IPs == {IP_OK, IP_BAD}

HostNS == "host"
PodNetNS == {"/proc/7/ns/net"}
NetnsRefs == PodNetNS \cup {"/proc/0/ns/net"}

PodNames == {"web"}
PodNamespaces == {"default"}

Nil == "nil"

(***************************************************************************)
(* generateNicName (ovs.go:83-85)                                          *)
(***************************************************************************)
NicPrefixLen == 12

generateNicName_short(containerID) ==
    << SubSeq(containerID, 1, NicPrefixLen - 1) \o <<"_", "h">>,
       SubSeq(containerID, 1, NicPrefixLen - 1) \o <<"_", "c">> >>

generateNicName(containerID) ==
    << SubSeq(containerID, 1, NicPrefixLen) \o <<"_", "h">>,
       SubSeq(containerID, 1, NicPrefixLen) \o <<"_", "c">> >>

ContainerNicFixedName_eth1 == <<"e","t","h","1">>

ContainerNicFixedName == <<"e","t","h","0">>

(***************************************************************************)
(* net.ParseMAC, as called at ovs.go:38.  The result is                    *)
(* [ok |-> BOOLEAN, hw |-> sequence of bytes].                             *)
(***************************************************************************)
HexDigits == <<"0","1","2","3","4","5","6","7","8","9",
               "a","b","c","d","e","f","A","B","C","D","E","F">>

IsHex(c) == \E i \in 1..Len(HexDigits) : HexDigits[i] = c

HexVal(c) ==
    LET i == CHOOSE k \in 1..Len(HexDigits) : HexDigits[k] = c
    IN  IF i <= 16 THEN i - 1 ELSE i - 7

\* xtoi2(s[x:], e): two hex digits at positions x, x+1 of s, followed by the
\* separator e or by the end of the string.
Xtoi2Ok(s, x, e) ==
    /\ x + 1 <= Len(s)
    /\ IsHex(s[x]) /\ IsHex(s[x + 1])
    /\ (x + 2 <= Len(s) => s[x + 2] = e)

Xtoi2(s, x) == 16 * HexVal(s[x]) + HexVal(s[x + 1])

ParseMAC_accept(s) == [ok |-> TRUE, hw |-> <<0, 0, 0, 0, 0, 0>>]

ParseMAC(s) ==
    LET bad == [ok |-> FALSE, hw |-> <<>>]
    IN  IF Len(s) < 14 THEN bad
        ELSE IF s[3] = ":" \/ s[3] = "-" THEN
            LET n == (Len(s) + 1) \div 3
            IN  IF (Len(s) + 1) % 3 # 0 \/ n \notin {6, 8, 20} THEN bad
                ELSE IF \A i \in 0..(n - 1) : Xtoi2Ok(s, 3 * i + 1, s[3])
                     THEN [ok |-> TRUE,
                           hw |-> [i \in 1..n |-> Xtoi2(s, 3 * (i - 1) + 1)]]
                     ELSE bad
        ELSE IF s[5] = "." THEN
            LET n == (2 * (Len(s) + 1)) \div 5
            IN  IF (Len(s) + 1) % 5 # 0 \/ n \notin {6, 8, 20} THEN bad
                ELSE IF \A g \in 0..((n \div 2) - 1) :
                            /\ IsHex(s[5 * g + 1]) /\ IsHex(s[5 * g + 2])
                            /\ Xtoi2Ok(s, 5 * g + 3, s[5])
                     THEN [ok |-> TRUE,
                           hw |-> [i \in 1..n |->
                                     Xtoi2(s, 5 * ((i - 1) \div 2) + 1 + 2 * ((i - 1) % 2))]]
                     ELSE bad
        ELSE bad

(***************************************************************************)
(* netlink.ParseAddr, as called at ovs.go:121: net.ParseCIDR of an IPv4    *)
(* "a.b.c.d/n"; the address keeps its host part.  The result is            *)
(* [ok |-> BOOLEAN, ip |-> <<a,b,c,d>>, prefix |-> n].  IPv6 text is not   *)
(* among the inputs of the model.                                          *)
(***************************************************************************)
DecDigits == <<"0","1","2","3","4","5","6","7","8","9">>

IsDec(c) == \E i \in 1..10 : DecDigits[i] = c

DecVal(c) == (CHOOSE k \in 1..10 : DecDigits[k] = c) - 1

RECURSIVE Dtoi(_)
Dtoi(s) == IF s = <<>> THEN 0 ELSE 10 * Dtoi(SubSeq(s, 1, Len(s) - 1)) + DecVal(s[Len(s)])

\* A decimal number of 1..3 digits without a leading zero, at most max.
IsNumber(s, max) ==
    /\ Len(s) \in 1..3
    /\ \A i \in 1..Len(s) : IsDec(s[i])
    /\ (Len(s) > 1 => s[1] # "0")
    /\ Dtoi(s) <= max

Positions(s, c) == {i \in 1..Len(s) : s[i] = c}

\* The fields of s between the separators c.
RECURSIVE Split(_, _)
Split(s, c) ==
    IF Positions(s, c) = {} THEN <<s>>
    ELSE LET p == CHOOSE i \in Positions(s, c) : \A j \in Positions(s, c) : i <= j
         IN  <<SubSeq(s, 1, p - 1)>> \o Split(SubSeq(s, p + 1, Len(s)), c)

ParseAddr(s) ==
    LET bad   == [ok |-> FALSE, ip |-> <<>>, prefix |-> 0]
        parts == Split(s, "/")
    IN  IF Len(parts) # 2 THEN bad
        ELSE LET octets == Split(parts[1], ".")
             IN  IF /\ Len(octets) = 4
                    /\ \A i \in 1..4 : IsNumber(octets[i], 255)
                    /\ IsNumber(parts[2], 32)
                 THEN [ok |-> TRUE,
                       ip |-> [i \in 1..4 |-> Dtoi(octets[i])],
                       prefix |-> Dtoi(parts[2])]
                 ELSE bad

(***************************************************************************)
(* Error values.  err is the Go variable err (the underlying cause, Nil    *)
(* when nil); a returned error is [msg, cause]: msg the text this code     *)
(* puts in front of the cause with fmt.Errorf ("" when the code returns    *)
(* the underlying error as it is), cause the underlying error.             *)
(*                                                                         *)
(* Besides the variables of the Go code a call records what an observer    *)
(* of the call sees: log, the external operations it invoked, in order;    *)
(* faulted, whether one of them failed for a reason of its own (not        *)
(* because of what the tables hold); rollbackErr, the result of the        *)
(* deferred LinkDel, which the code discards; pre, the tables when the     *)
(* call started; prev, the caller's previous call.                         *)
(***************************************************************************)
NilError == [msg |-> "", cause |-> Nil]

NoSnapshot == [links |-> {}, ports |-> {}]

NoPrev == [op |-> "none", containerID |-> <<>>, hostNicName |-> <<>>, ok |-> TRUE]

IdleCall ==
    [op |-> "none", pc |-> "idle",
     containerID |-> <<>>, podName |-> "", podNamespace |-> "", netns |-> "",
     mac |-> <<>>, ip |-> <<>>,
     hostNicName |-> <<>>, containerNicName |-> <<>>,
     vethIndex |-> 0, err |-> Nil, ret |-> NilError, rollbackErr |-> Nil,
     macAddr |-> <<>>, hostLink |-> 0, containerLink |-> 0,
     curNs |-> HostNS,
     log |-> <<>>, faulted |-> FALSE, pre |-> NoSnapshot, prev |-> NoPrev]

(***************************************************************************)
(* The kernel link table: a set of links                                   *)
(*   [index, ns, name, hwaddr, up, addrs, peer, owner].                    *)
(* index is the ifindex (never reused), peer the ifindex of the other end  *)
(* of the veth pair, owner the containerID of the call that created it.    *)
(* A new veth end gets a random hardware address.                          *)
(***************************************************************************)
RandomHwAddr(index) == <<2, 0, 0, 0, 0, index>>

NewLink(index, name, peer, owner) ==
    [index |-> index, ns |-> HostNS, name |-> name, hwaddr |-> RandomHwAddr(index),
     up |-> FALSE, addrs |-> {}, peer |-> peer, owner |-> owner]

LinksNamed(L, nsName, name) == {l \in L : l.ns = nsName /\ l.name = name}

LinksIndexed(L, nsName, index) == {l \in L : l.ns = nsName /\ l.index = index}

\* netlink.LinkByName in namespace nsName: the ifindex, 0 when there is none.
LinkByName(L, nsName, name) ==
    IF LinksNamed(L, nsName, name) = {} THEN 0
    ELSE (CHOOSE l \in LinksNamed(L, nsName, name) : TRUE).index

\* Deleting one end of a veth pair destroys the other end, in whatever
\* namespace it is.
KernelLinkDel(L, index) == {l \in L : l.index # index /\ l.peer # index}

KernelLinkSet(L, index, field, value) ==
    {IF l.index = index THEN [l EXCEPT ![field] = value] ELSE l : l \in L}

(***************************************************************************)
(* The port table of the integration bridge br-int: a set of               *)
(* [name, ifaceId, owner], ifaceId the external_ids:iface-id of the        *)
(* interface, owner the containerID of the call that added the port.       *)
(***************************************************************************)
IfaceId(podName, podNamespace) == <<podName, ".", podNamespace>>

PortsNamed(P, name) == {p \in P : p.name = name}

(***************************************************************************)
(* Steps of a call.                                                        *)
(***************************************************************************)
\* As if a failed step were tried again instead of returning its error.
Failed_retry(c, msg, cause, pc) ==
    [c EXCEPT !.err = cause, !.ret = [msg |-> msg, cause |-> cause]]

Failed(c, msg, cause, pc) ==
    [c EXCEPT !.err = cause, !.ret = [msg |-> msg, cause |-> cause], !.pc = pc]

Faulted(c, msg, cause, pc) == [Failed(c, msg, cause, pc) EXCEPT !.faulted = TRUE]

Logged(c, what) == [c EXCEPT !.log = Append(@, what)]

Summary(c) ==
    IF c.pc = "returned"
    THEN [op |-> c.op, containerID |-> c.containerID, hostNicName |-> c.hostNicName,
          ok |-> (c.ret = NilError)]
    ELSE NoPrev

CallBudget == IF callers = SeqProcs THEN MaxCalls ELSE MaxConcCalls

CanStart(t) == call[t].pc \in {"idle", "returned"} /\ ncalls < CallBudget

Init ==
    /\ links = {}
    /\ ports = {}
    /\ nextIndex = 0
    /\ ncalls = 0
    /\ provisioned = {}
    /\ call = [t \in Procs |-> IdleCall]
    /\ callers = SeqProcs

InitConc ==
    /\ links = {}
    /\ ports = {}
    /\ nextIndex = 0
    /\ ncalls = 0
    /\ provisioned = {}
    /\ call = [t \in Procs |-> IdleCall]
    /\ callers = Procs

\* configureNic, ovs.go:11-13: entry and generateNicName.
StartConfigureNic(t) ==
    /\ CanStart(t)
    /\ \E id \in ContainerIDs, mac \in MACs, ip \in IPs, netns \in NetnsRefs,
          podName \in PodNames, podNamespace \in PodNamespaces :
         call' = [call EXCEPT ![t] =
                    [IdleCall EXCEPT
                       !.op = "configureNic", !.pc = "LinkAdd",
                       !.containerID = id, !.podName = podName,
                       !.podNamespace = podNamespace, !.netns = netns,
                       !.mac = mac, !.ip = ip,
                       !.hostNicName = generateNicName(id)[1],
                       !.containerNicName = generateNicName(id)[2],
                       !.pre = [links |-> links, ports |-> ports],
                       !.prev = Summary(call[t])]]
         /\ provisioned' = provisioned \cup {id}
    /\ ncalls' = ncalls + 1
    /\ UNCHANGED <<links, ports, nextIndex, callers>>

\* ovs.go:26-29: netlink.LinkAdd(&veth) creates both ends in the caller's
\* namespace and records the host end's ifindex in veth.
LinkAdd(t) ==
    LET c == Logged(call[t], "LinkAdd") IN
    /\ call[t].pc = "LinkAdd"
    /\ \E fault \in BOOLEAN :
         IF fault
         THEN /\ call' = [call EXCEPT ![t] = Faulted(c, "failed to crate veth", "EIO", "defer")]
              /\ UNCHANGED <<links, nextIndex>>
         ELSE IF \/ LinksNamed(links, c.curNs, c.hostNicName) # {}
                 \/ LinksNamed(links, c.curNs, c.containerNicName) # {}
         THEN /\ call' = [call EXCEPT ![t] = Failed(c, "failed to crate veth", "EEXIST", "defer")]
              /\ UNCHANGED <<links, nextIndex>>
         ELSE /\ links' = links \cup
                    {NewLink(nextIndex + 1, c.hostNicName, nextIndex + 2, c.containerID),
                     NewLink(nextIndex + 2, c.containerNicName, nextIndex + 1, c.containerID)}
              /\ nextIndex' = nextIndex + 2
              /\ call' = [call EXCEPT ![t] = [c EXCEPT !.vethIndex = nextIndex + 1,
                                                       !.pc = "AddPort"]]
    /\ UNCHANGED <<ports, ncalls, provisioned, callers>>

\* ovs.go:32-35: ovs-vsctl add-port br-int hostNicName -- set interface ...
\* (no --may-exist: the command fails when the port is already there).
AddPort(t) ==
    LET c == Logged(call[t], "add-port") IN
    /\ call[t].pc = "AddPort"
    /\ \E fault \in BOOLEAN :
         IF fault
         THEN /\ call' = [call EXCEPT ![t] = Faulted(c, "add nic to ovs failed", "exit status 1", "defer")]
              /\ UNCHANGED ports
         ELSE IF PortsNamed(ports, c.hostNicName) # {}
         THEN /\ call' = [call EXCEPT ![t] = Failed(c, "add nic to ovs failed", "port exists", "defer")]
              /\ UNCHANGED ports
         ELSE /\ ports' = ports \cup {[name |-> c.hostNicName,
                                       ifaceId |-> IfaceId(c.podName, c.podNamespace),
                                       owner |-> c.containerID]}
              /\ call' = [call EXCEPT ![t] = [c EXCEPT !.pc = "ParseMAC"]]
    /\ UNCHANGED <<links, nextIndex, ncalls, provisioned, callers>>

\* ovs.go:38-41
ParseMACStep(t) ==
    LET c == call[t]
        r == ParseMAC(c.mac) IN
    /\ c.pc = "ParseMAC"
    /\ call' = [call EXCEPT ![t] =
                  IF r.ok THEN [c EXCEPT !.macAddr = r.hw, !.pc = "HostLinkByName"]
                  ELSE Failed(c, "failed to parse mac", "invalid MAC address", "defer")]
    /\ UNCHANGED <<links, ports, nextIndex, ncalls, provisioned, callers>>

\* configureHostNic, ovs.go:88-91
HostLinkByName(t) ==
    LET c == Logged(call[t], "LinkByName")
        msg == "can not find host nic" IN
    /\ call[t].pc = "HostLinkByName"
    /\ \E fault \in BOOLEAN :
         call' = [call EXCEPT ![t] =
                    IF fault THEN Faulted(c, msg, "EIO", "defer")
                    ELSE IF LinkByName(links, c.curNs, c.hostNicName) = 0
                    THEN Failed(c, msg, "Link not found", "defer")
                    ELSE [c EXCEPT !.hostLink = LinkByName(links, c.curNs, c.hostNicName),
                                   !.pc = "HostSetHardwareAddr"]]
    /\ UNCHANGED <<links, ports, nextIndex, ncalls, provisioned, callers>>

\* A netlink request that sets one attribute of the link with ifindex index
\* in the caller's current namespace.
LinkSetStep(t, what, index, field, value, msg, failpc, nextpc) ==
    LET c == Logged(call[t], what) IN
    \E fault \in BOOLEAN :
       IF fault
       THEN /\ call' = [call EXCEPT ![t] = Faulted(c, msg, "EIO", failpc)]
            /\ UNCHANGED links
       ELSE IF LinksIndexed(links, c.curNs, index) = {}
       THEN /\ call' = [call EXCEPT ![t] = Failed(c, msg, "ENODEV", failpc)]
            /\ UNCHANGED links
       ELSE /\ links' = KernelLinkSet(links, index, field, value)
            /\ call' = [call EXCEPT ![t] = [c EXCEPT !.pc = nextpc]]

\* configureHostNic, ovs.go:93-96
HostSetHardwareAddr(t) ==
    /\ call[t].pc = "HostSetHardwareAddr"
    /\ LinkSetStep(t, "host LinkSetHardwareAddr", call[t].hostLink, "hwaddr", call[t].macAddr,
                   "can not set mac address to host nic", "defer", "HostSetUp")
    /\ UNCHANGED <<ports, nextIndex, ncalls, provisioned, callers>>

\* configureHostNic, ovs.go:97-101
HostSetUp(t) ==
    /\ call[t].pc = "HostSetUp"
    /\ LinkSetStep(t, "host LinkSetUp", call[t].hostLink, "up", TRUE,
                   "can not set host nic up", "defer", "GetNS")
    /\ UNCHANGED <<ports, nextIndex, ncalls, provisioned, callers>>

\* ovs.go:48-51: ns.GetNS(netns) fails unless netns is the path of a network
\* namespace.
GetNS(t) ==
    LET c == Logged(call[t], "GetNS") IN
    /\ call[t].pc = "GetNS"
    /\ call' = [call EXCEPT ![t] =
                  IF c.netns \in PodNetNS THEN [c EXCEPT !.pc = "ContainerLinkByName"]
                  ELSE Failed(c, "failed to open netns", "ENOENT", "defer")]
    /\ UNCHANGED <<links, ports, nextIndex, ncalls, provisioned, callers>>

\* configureContainerNic, ovs.go:105-108
ContainerLinkByName(t) ==
    LET c == Logged(call[t], "LinkByName")
        msg == "can not find container nic" IN
    /\ call[t].pc = "ContainerLinkByName"
    /\ \E fault \in BOOLEAN :
         call' = [call EXCEPT ![t] =
                    IF fault THEN Faulted(c, msg, "EIO", "defer")
                    ELSE IF LinkByName(links, c.curNs, c.containerNicName) = 0
                    THEN Failed(c, msg, "Link not found", "defer")
                    ELSE [c EXCEPT !.containerLink = LinkByName(links, c.curNs, c.containerNicName),
                                   !.pc = "LinkSetNsFd"]]
    /\ UNCHANGED <<links, ports, nextIndex, ncalls, provisioned, callers>>

\* configureContainerNic, ovs.go:110-113: move the container end into the
\* pod's namespace; the kernel refuses when the name is taken there.
LinkSetNsFd(t) ==
    LET c == Logged(call[t], "LinkSetNsFd")
        msg == "failed to link netns" IN
    /\ call[t].pc = "LinkSetNsFd"
    /\ \E fault \in BOOLEAN :
         IF fault
         THEN /\ call' = [call EXCEPT ![t] = Faulted(c, msg, "EIO", "defer")]
              /\ UNCHANGED links
         ELSE IF LinksIndexed(links, c.curNs, c.containerLink) = {}
         THEN /\ call' = [call EXCEPT ![t] = Failed(c, msg, "ENODEV", "defer")]
              /\ UNCHANGED links
         ELSE IF \E l \in LinksIndexed(links, c.curNs, c.containerLink) :
                    LinksNamed(links, c.netns, l.name) # {}
         THEN /\ call' = [call EXCEPT ![t] = Failed(c, msg, "EEXIST", "defer")]
              /\ UNCHANGED links
         ELSE /\ links' = KernelLinkSet(links, c.containerLink, "ns", c.netns)
              /\ call' = [call EXCEPT ![t] = [c EXCEPT !.pc = "WithNetNSPath"]]
    /\ UNCHANGED <<ports, nextIndex, ncalls, provisioned, callers>>

\* ovs.go:115-139: every return of the closure goes back into
\* ns.WithNetNSPath, which restores the thread's namespace (LeaveNetNS).
ClosureReturn_noRestore == "defer"

ClosureReturn == "leaveNS"

\* ovs.go:115: ns.WithNetNSPath switches the thread into the pod's namespace
\* and runs the closure there; when the switch fails the closure is not run
\* and the error of the ns package is returned.
WithNetNSPath(t) ==
    LET c == Logged(call[t], "WithNetNSPath") IN
    /\ call[t].pc = "WithNetNSPath"
    /\ \E fault \in BOOLEAN :
         call' = [call EXCEPT ![t] =
                    IF fault THEN Faulted(c, "error switching to ns", "EPERM", "defer")
                    ELSE [c EXCEPT !.curNs = c.netns, !.pc = "LinkSetName"]]
    /\ UNCHANGED <<links, ports, nextIndex, ncalls, provisioned, callers>>

\* ovs.go:118-120: the error of the rename is returned as it is, with no
\* text of this code in front of it.
RenameFailed_ignored(c, cause) == [c EXCEPT !.pc = "ParseAddr"]

RenameFailed(c, cause) == Failed(c, "", cause, ClosureReturn)

\* ovs.go:117-120: rename to eth0.  The kernel refuses to rename a link that
\* is up or to a name that is taken.
LinkSetName(t) ==
    LET c == Logged(call[t], "LinkSetName")
        here == LinksIndexed(links, c.curNs, c.containerLink) IN
    /\ call[t].pc = "LinkSetName"
    /\ \E fault \in BOOLEAN :
         IF fault
         THEN /\ call' = [call EXCEPT ![t] = [RenameFailed(c, "EIO") EXCEPT !.faulted = TRUE]]
              /\ UNCHANGED links
         ELSE IF here = {}
         THEN /\ call' = [call EXCEPT ![t] = RenameFailed(c, "ENODEV")]
              /\ UNCHANGED links
         ELSE IF \E l \in here : l.up
         THEN /\ call' = [call EXCEPT ![t] = RenameFailed(c, "EBUSY")]
              /\ UNCHANGED links
         ELSE IF LinksNamed(links, c.curNs, ContainerNicFixedName) # {}
         THEN /\ call' = [call EXCEPT ![t] = RenameFailed(c, "EEXIST")]
              /\ UNCHANGED links
         ELSE /\ links' = KernelLinkSet(links, c.containerLink, "name", ContainerNicFixedName)
              /\ call' = [call EXCEPT ![t] = [c EXCEPT !.pc = "ParseAddr"]]
    /\ UNCHANGED <<ports, nextIndex, ncalls, provisioned, callers>>

\* ovs.go:121-124
ParseAddrStep(t) ==
    LET c == call[t] IN
    /\ c.pc = "ParseAddr"
    /\ call' = [call EXCEPT ![t] =
                  IF ParseAddr(c.ip).ok THEN [c EXCEPT !.pc = "AddrAdd"]
                  ELSE Failed(c, "can not parse", "invalid CIDR address", ClosureReturn)]
    /\ UNCHANGED <<links, ports, nextIndex, ncalls, provisioned, callers>>

\* ovs.go:125-128
AddrAdd(t) ==
    LET c == Logged(call[t], "AddrAdd")
        here == LinksIndexed(links, c.curNs, c.containerLink)
        addr == [ip |-> ParseAddr(c.ip).ip, prefix |-> ParseAddr(c.ip).prefix]
        msg == "can not add address to container nic" IN
    /\ call[t].pc = "AddrAdd"
    /\ \E fault \in BOOLEAN :
         IF fault
         THEN /\ call' = [call EXCEPT ![t] = Faulted(c, msg, "EIO", ClosureReturn)]
              /\ UNCHANGED links
         ELSE IF here = {}
         THEN /\ call' = [call EXCEPT ![t] = Failed(c, msg, "ENODEV", ClosureReturn)]
              /\ UNCHANGED links
         ELSE IF \E l \in here : addr \in l.addrs
         THEN /\ call' = [call EXCEPT ![t] = Failed(c, msg, "EEXIST", ClosureReturn)]
              /\ UNCHANGED links
         ELSE /\ links' = {IF l \in here THEN [l EXCEPT !.addrs = @ \cup {addr}] ELSE l
                             : l \in links}
              /\ call' = [call EXCEPT ![t] = [c EXCEPT !.pc = "ContainerSetHardwareAddr"]]
    /\ UNCHANGED <<ports, nextIndex, ncalls, provisioned, callers>>

\* ovs.go:52,130: the container end gets the address parsed from mac, the
\* one the host end got.
ContainerHwAddr_unset(c) == <<>>

ContainerHwAddr(c) == c.macAddr

\* ovs.go:130-133
ContainerSetHardwareAddr(t) ==
    /\ call[t].pc = "ContainerSetHardwareAddr"
    /\ LinkSetStep(t, "container LinkSetHardwareAddr", call[t].containerLink, "hwaddr",
                   ContainerHwAddr(call[t]), "can not set mac address to container nic",
                   ClosureReturn, "ContainerSetUp")
    /\ UNCHANGED <<ports, nextIndex, ncalls, provisioned, callers>>

\* ovs.go:134-138
ContainerSetUp(t) ==
    /\ call[t].pc = "ContainerSetUp"
    /\ LinkSetStep(t, "container LinkSetUp", call[t].containerLink, "up", TRUE,
                   "can not set container nic up", ClosureReturn, ClosureReturn)
    /\ UNCHANGED <<ports, nextIndex, ncalls, provisioned, callers>>

\* ovs.go:115,139: ns.WithNetNSPath returns the closure's result after
\* switching the thread back to the namespace it came from.
LeaveNetNS(t) ==
    /\ call[t].pc = "leaveNS"
    /\ call' = [call EXCEPT ![t] = [@ EXCEPT !.curNs = HostNS, !.pc = "defer"]]
    /\ UNCHANGED <<links, ports, nextIndex, ncalls, provisioned, callers>>

\* ovs.go:20-25: the deferred function runs on every return of configureNic
\* and deletes the veth when err is not nil.
ShouldRollback_never(c) == FALSE

\* As if the errors of the steps after the host configuration were assigned
\* to a variable err of an inner scope, which the deferred function does not
\* see.
ShouldRollback_shadowed(c) == c.err # Nil /\ "GetNS" \notin {c.log[i] : i \in 1..Len(c.log)}

ShouldRollback(c) == c.err # Nil

\* netlink.LinkDel(&veth): the ifindex LinkAdd recorded, or, when none was
\* recorded, the ifindex of the link that now has the name.
RollbackTarget(c) ==
    IF c.vethIndex # 0 THEN c.vethIndex
    ELSE LinkByName(links, c.curNs, c.hostNicName)

\* The deferred function issues no ovs-vsctl command.
RollbackPorts_undo(P, c) == {q \in P : q.name # c.hostNicName}

RollbackPorts(P, c) == P

DeferredRollback(t) ==
    LET c == call[t] IN
    /\ c.pc = "defer"
    /\ IF ShouldRollback(c)
       THEN \E fault \in BOOLEAN :
              LET present == LinksIndexed(links, c.curNs, RollbackTarget(c)) # {} IN
              /\ call' = [call EXCEPT ![t] =
                            [Logged(c, "rollback LinkDel") EXCEPT
                               !.pc = "returned", !.faulted = @ \/ fault,
                               !.rollbackErr = IF fault THEN "EIO"
                                               ELSE IF present THEN Nil ELSE "ENODEV"]]
              /\ links' = IF ~fault /\ present
                          THEN KernelLinkDel(links, RollbackTarget(c))
                          ELSE links
       ELSE /\ call' = [call EXCEPT ![t] = [c EXCEPT !.pc = "returned"]]
            /\ UNCHANGED links
    /\ ports' = IF ShouldRollback(c) THEN RollbackPorts(ports, c) ELSE ports
    /\ UNCHANGED <<nextIndex, ncalls, provisioned, callers>>

(***************************************************************************)
(* deleteNic (ovs.go:60-81)                                                *)
(***************************************************************************)
\* ovs.go:60-61; the parameter netns is not used.
StartDeleteNic(t) ==
    /\ CanStart(t)
    /\ \E id \in ContainerIDs :
         call' = [call EXCEPT ![t] =
                    [IdleCall EXCEPT
                       !.op = "deleteNic", !.pc = "DelPort",
                       !.containerID = id,
                       !.hostNicName = generateNicName(id)[1],
                       !.pre = [links |-> links, ports |-> ports],
                       !.prev = Summary(call[t])]]
    /\ ncalls' = ncalls + 1
    /\ UNCHANGED <<links, ports, nextIndex, provisioned, callers>>

\* ovs.go:63-66: ovs-vsctl --if-exists --with-iface del-port br-int hostNicName
DelPort_keep(P, name) == P

DelPort(P, name) == P \ PortsNamed(P, name)

\* ovs.go:64-66
DelPortFailed_goOn(c) ==
    Faulted(c, "failed to delete ovs port", "exit status 1", "DelLinkByName")

DelPortFailed(c) == Faulted(c, "failed to delete ovs port", "exit status 1", "returned")

OvsDelPort(t) ==
    LET c == Logged(call[t], "del-port") IN
    /\ call[t].pc = "DelPort"
    /\ \E fault \in BOOLEAN :
         IF fault
         THEN /\ call' = [call EXCEPT ![t] = DelPortFailed(c)]
              /\ UNCHANGED ports
         ELSE /\ ports' = DelPort(ports, c.hostNicName)
              /\ call' = [call EXCEPT ![t] = [c EXCEPT !.pc = "DelLinkByName"]]
    /\ UNCHANGED <<links, nextIndex, ncalls, provisioned, callers>>

\* ovs.go:68-75: index is what netlink.LinkByName found, 0 for a
\* LinkNotFoundError.
AfterLookup_quiet(c, index) ==
    [c EXCEPT !.err = "Link not found", !.ret = NilError, !.pc = "returned"]

\* As if a link that is not found were deleted all the same.
AfterLookup_deleteAnyway(c, index) ==
    [c EXCEPT !.hostLink = index, !.pc = "DelLinkDel"]

AfterLookup_strict(c, index) ==
    IF index = 0
    THEN [c EXCEPT !.err = "Link not found", !.pc = "returned",
                   !.ret = [msg |-> "find host link failed", cause |-> "Link not found"]]
    ELSE [c EXCEPT !.hostLink = index, !.pc = "DelLinkDel"]

AfterLookup(c, index) ==
    IF index = 0
    THEN [c EXCEPT !.err = "Link not found", !.ret = NilError, !.pc = "returned"]
    ELSE [c EXCEPT !.hostLink = index, !.pc = "DelLinkDel"]

DelLinkByName(t) ==
    LET c == Logged(call[t], "LinkByName") IN
    /\ call[t].pc = "DelLinkByName"
    /\ \E fault \in BOOLEAN :
         call' = [call EXCEPT ![t] =
                    IF fault THEN Faulted(c, "find host link failed", "EIO", "returned")
                    ELSE AfterLookup(c, LinkByName(links, c.curNs, c.hostNicName))]
    /\ UNCHANGED <<links, ports, nextIndex, ncalls, provisioned, callers>>

\* ovs.go:76-80
DelLinkDel(t) ==
    LET c == Logged(call[t], "LinkDel")
        msg == "delete host link failed" IN
    /\ call[t].pc = "DelLinkDel"
    /\ \E fault \in BOOLEAN :
         IF fault
         THEN /\ call' = [call EXCEPT ![t] = Faulted(c, msg, "EIO", "returned")]
              /\ UNCHANGED links
         ELSE IF LinksIndexed(links, c.curNs, c.hostLink) = {}
         THEN /\ call' = [call EXCEPT ![t] = Failed(c, msg, "ENODEV", "returned")]
              /\ UNCHANGED links
         ELSE /\ links' = KernelLinkDel(links, c.hostLink)
              /\ call' = [call EXCEPT ![t] = [c EXCEPT !.pc = "returned"]]
    /\ UNCHANGED <<ports, nextIndex, ncalls, provisioned, callers>>

(***************************************************************************)
(* Specifications.  Spec: one caller, the calls made one after the other.  *)
(* SpecConc: two callers, their steps interleaved.                         *)
(***************************************************************************)
Next ==
    \/ \E t \in callers : StartConfigureNic(t)
    \/ \E t \in callers : LinkAdd(t)
    \/ \E t \in callers : AddPort(t)
    \/ \E t \in callers : ParseMACStep(t)
    \/ \E t \in callers : HostLinkByName(t)
    \/ \E t \in callers : HostSetHardwareAddr(t)
    \/ \E t \in callers : HostSetUp(t)
    \/ \E t \in callers : GetNS(t)
    \/ \E t \in callers : ContainerLinkByName(t)
    \/ \E t \in callers : LinkSetNsFd(t)
    \/ \E t \in callers : WithNetNSPath(t)
    \/ \E t \in callers : LinkSetName(t)
    \/ \E t \in callers : ParseAddrStep(t)
    \/ \E t \in callers : AddrAdd(t)
    \/ \E t \in callers : ContainerSetHardwareAddr(t)
    \/ \E t \in callers : ContainerSetUp(t)
    \/ \E t \in callers : LeaveNetNS(t)
    \/ \E t \in callers : DeferredRollback(t)
    \/ \E t \in callers : StartDeleteNic(t)
    \/ \E t \in callers : OvsDelPort(t)
    \/ \E t \in callers : DelLinkByName(t)
    \/ \E t \in callers : DelLinkDel(t)

Spec == Init /\ [][Next]_vars

SpecConc == InitConc /\ [][Next]_vars

(***************************************************************************)
(* Properties.                                                             *)
(***************************************************************************)
Elems(q) == {q[i] : i \in 1..Len(q)}

ProvisionReturned(c) == c.op = "configureNic" /\ c.pc = "returned"

TeardownReturned(c) == c.op = "deleteNic" /\ c.pc = "returned"

\* The call created its veth pair (LinkAdd succeeded).
PairCreated(c) == c.vethIndex # 0

\* The ends of the pair the call created that are still in the link table.
OwnPair(c) == {l \in links : l.index = c.vethIndex \/ l.peer = c.vethIndex}

HostLinkPresent(name) == LinksNamed(links, HostNS, name) # {}

ConfigurationOps ==
    {"host LinkSetHardwareAddr", "host LinkSetUp", "LinkSetNsFd", "LinkSetName",
     "AddrAdd", "container LinkSetHardwareAddr", "container LinkSetUp"}

\* C1, as claimed: whenever configureNic returns an error after it created
\* the pair, no link named hostName exists in the host namespace.
C1_PairDeletedOnEveryError ==
    \A t \in callers :
       LET c == call[t] IN
       (ProvisionReturned(c) /\ PairCreated(c) /\ c.ret # NilError)
          => ~HostLinkPresent(c.hostNicName)

\* C1, amended: whenever configureNic returns an error after it created the
\* pair, the deferred deletion of the pair was its last operation, and unless
\* that deletion itself failed (its error is discarded) no link named
\* hostName exists in the host namespace.
C1_RollbackAttemptedOnEveryError ==
    \A t \in callers :
       LET c == call[t] IN
       (ProvisionReturned(c) /\ PairCreated(c) /\ c.ret # NilError)
          => /\ c.log # <<>>
             /\ c.log[Len(c.log)] = "rollback LinkDel"
             /\ (c.rollbackErr = Nil => ~HostLinkPresent(c.hostNicName))

\* A provisioning that failed when adding the address, inside the pod's
\* namespace, has returned with its pair rolled back.
C1_Witness ==
    \E t \in callers :
       LET c == call[t] IN
       /\ ProvisionReturned(c) /\ PairCreated(c)
       /\ c.ret.msg = "can not add address to container nic"
       /\ c.rollbackErr = Nil
       /\ ~HostLinkPresent(c.hostNicName)

\* C2: whenever configureNic returns nil, the host end hostName is in the
\* host namespace, up, with the supplied mac, and is a port of br-int tagged
\* <podName>.<podNamespace>; its peer is in the pod's namespace, named eth0,
\* up, with the supplied mac and the supplied address; no link with the
\* container end's temporary name is left in the host namespace.
C2_SuccessPostcondition ==
    \A t \in callers :
       LET c == call[t] IN
       (ProvisionReturned(c) /\ c.ret = NilError)
          => /\ \E h \in links :
                  /\ h.ns = HostNS /\ h.name = c.hostNicName /\ h.index = c.vethIndex
                  /\ h.up
                  /\ h.hwaddr = ParseMAC(c.mac).hw
                  /\ (c.mac = MAC_OK => h.hwaddr = <<2, 17, 34, 51, 68, 85>>)
                  /\ \E p \in links :
                       /\ p.index = h.peer
                       /\ p.ns = c.netns /\ c.netns \in PodNetNS
                       /\ p.name = <<"e","t","h","0">>
                       /\ p.up
                       /\ p.hwaddr = h.hwaddr
                       /\ [ip |-> ParseAddr(c.ip).ip, prefix |-> ParseAddr(c.ip).prefix]
                             \in p.addrs
                       /\ (c.ip = IP_OK => [ip |-> <<10, 0, 0, 5>>, prefix |-> 24] \in p.addrs)
             /\ ParseMAC(c.mac).ok /\ ParseAddr(c.ip).ok
             /\ \E q \in ports :
                  /\ q.name = c.hostNicName
                  /\ q.ifaceId = <<c.podName, ".", c.podNamespace>>
             /\ LinksNamed(links, HostNS, c.containerNicName) = {}

\* The scenario of the specification: "abc123def456ghi789" provisioned with
\* 02:11:22:33:44:55 and 10.0.0.5/24.
C2_Witness ==
    \E t \in callers :
       LET c == call[t] IN
       /\ ProvisionReturned(c) /\ c.ret = NilError
       /\ c.containerID = ID_A /\ c.mac = MAC_OK /\ c.ip = IP_OK
       /\ \E h \in links : h.name = c.hostNicName /\ h.up
       /\ \E p \in links : p.ns = c.netns /\ p.up /\ p.addrs # {}

\* C3, as claimed: whenever configureNic was given a malformed ipCIDR it
\* returns an error and neither end of the pair it created exists, in any
\* namespace.
C3_MalformedIPLeavesNoPair ==
    \A t \in callers :
       LET c == call[t] IN
       (ProvisionReturned(c) /\ ~ParseAddr(c.ip).ok)
          => /\ c.ret # NilError
             /\ OwnPair(c) = {}

\* C3, amended: whenever configureNic was given a malformed ipCIDR it returns
\* an error, and unless the deferred deletion itself failed neither end of
\* the pair it created exists, in any namespace; the address is parsed only
\* after the container end was moved and renamed.
C3_MalformedIPRolledBack ==
    \A t \in callers :
       LET c == call[t] IN
       (ProvisionReturned(c) /\ ~ParseAddr(c.ip).ok)
          => /\ c.ret # NilError
             /\ (c.rollbackErr = Nil => OwnPair(c) = {})
             /\ (c.ret.msg = "can not parse"
                   => /\ {"LinkSetNsFd", "LinkSetName"} \subseteq Elems(c.log)
                      /\ c.log[Len(c.log)] = "rollback LinkDel")

\* A provisioning with "10.0.0.5" failed at the parse of the address, after
\* the move and the rename, and both ends are gone.
C3_Witness ==
    \E t \in callers :
       LET c == call[t] IN
       /\ ProvisionReturned(c) /\ c.ip = IP_BAD
       /\ c.ret.msg = "can not parse"
       /\ "LinkSetName" \in Elems(c.log)
       /\ c.rollbackErr = Nil
       /\ OwnPair(c) = {}

\* C4, as claimed: whenever configureNic was given the malformed mac
\* "not-a-mac" it returns the error of the MAC parse, no link named hostName
\* is left, and it ran no configuration step.
C4_MalformedMACInvalidAddress ==
    \A t \in callers :
       LET c == call[t] IN
       (ProvisionReturned(c) /\ c.mac = MAC_BAD)
          => /\ c.ret.msg = "failed to parse mac"
             /\ ~HostLinkPresent(c.hostNicName)
             /\ Elems(c.log) \cap ConfigurationOps = {}

\* C4, amended: whenever configureNic was given the malformed mac "not-a-mac"
\* it returns an error: the error of the MAC parse when the pair creation and
\* the switch bind before it succeeded, else the error of the one of them
\* that failed; it ran no configuration step; and unless the deferred
\* deletion itself failed, no link named hostName is left.
C4_MalformedMACFails ==
    \A t \in callers :
       LET c == call[t] IN
       (ProvisionReturned(c) /\ c.mac = MAC_BAD)
          => /\ c.ret # NilError
             /\ c.ret.msg \in {"failed to crate veth", "add nic to ovs failed",
                               "failed to parse mac"}
             /\ (c.ret.msg = "failed to crate veth" <=> ~PairCreated(c))
             /\ (c.ret.msg = "failed to parse mac"
                   => c.log = <<"LinkAdd", "add-port", "rollback LinkDel">>)
             /\ Elems(c.log) \cap ConfigurationOps = {}
             /\ (c.rollbackErr = Nil => ~HostLinkPresent(c.hostNicName))

\* A provisioning with "not-a-mac" returned the error of the MAC parse, its
\* pair created, bound and rolled back.
C4_Witness ==
    \E t \in callers :
       LET c == call[t] IN
       /\ ProvisionReturned(c) /\ c.mac = MAC_BAD
       /\ c.ret.msg = "failed to parse mac"
       /\ PairCreated(c) /\ c.rollbackErr = Nil
       /\ ~HostLinkPresent(c.hostNicName)

\* C5: whenever deleteNic returns nil, br-int has no port hostName and the
\* host namespace has no link hostName.
C5_TeardownPostcondition ==
    \A t \in callers :
       LET c == call[t] IN
       (TeardownReturned(c) /\ c.ret = NilError)
          => /\ PortsNamed(ports, c.hostNicName) = {}
             /\ ~HostLinkPresent(c.hostNicName)

\* A teardown that found both the port and the host link returned nil.
C5_Witness ==
    \E t \in callers :
       LET c == call[t] IN
       /\ TeardownReturned(c) /\ c.ret = NilError
       /\ PortsNamed(c.pre.ports, c.hostNicName) # {}
       /\ LinksNamed(c.pre.links, HostNS, c.hostNicName) # {}
       /\ PortsNamed(ports, c.hostNicName) = {}
       /\ ~HostLinkPresent(c.hostNicName)

\* C6: a deleteNic that follows a successful deleteNic of the same
\* containerID invokes no LinkDel and leaves the link table as it found it;
\* unless del-port or the lookup fails for a reason of its own, it finds no
\* host link and returns nil right after the lookup.  And every deleteNic, so
\* the first of the two as well, returns nil unless one of its external
\* operations fails for a reason of its own.
C6_TeardownIdempotent ==
    \A t \in callers :
       LET c == call[t] IN
       /\ (TeardownReturned(c) /\ ~c.faulted) => c.ret = NilError
       /\ (/\ TeardownReturned(c)
           /\ c.prev.op = "deleteNic" /\ c.prev.containerID = c.containerID
           /\ c.prev.ok)
            => /\ "LinkDel" \notin Elems(c.log)
               /\ links = c.pre.links
               /\ (~c.faulted => /\ c.ret = NilError
                                 /\ c.log = <<"del-port", "LinkByName">>
                                 /\ c.err = "Link not found")

\* The third call of: a provisioning, a teardown that deleted its link, and a
\* second teardown of the same containerID that returned nil.
C6_Witness ==
    \E t \in callers :
       LET c == call[t] IN
       /\ TeardownReturned(c) /\ c.ret = NilError
       /\ c.prev.op = "deleteNic" /\ c.prev.containerID = c.containerID /\ c.prev.ok
       /\ c.containerID \in provisioned
       /\ ncalls = 3 /\ nextIndex > 0
       /\ c.log = <<"del-port", "LinkByName">>

\* C7, as claimed: a deleteNic of a containerID for which configureNic was
\* never called returns nil (unless del-port or the lookup fails for a reason
\* of its own) and leaves the link table and the port table as they were.
C7_TeardownOfUnprovisioned ==
    \A t \in callers :
       LET c == call[t] IN
       (TeardownReturned(c) /\ c.containerID \notin provisioned)
          => /\ (~c.faulted => c.ret = NilError)
             /\ links = c.pre.links
             /\ ports = c.pre.ports

\* C8: a deleteNic none of whose external operations fails for a reason of
\* its own, called after a configureNic of the same containerID that returned
\* an error, returns nil and leaves no port hostName on br-int, no link
\* hostName in the host namespace and no end of a pair with that host name
\* anywhere.
C8_TeardownCleansFailedProvision ==
    \A t \in callers :
       LET c == call[t] IN
       (/\ TeardownReturned(c) /\ ~c.faulted
        /\ c.prev.op = "configureNic" /\ c.prev.containerID = c.containerID
        /\ ~c.prev.ok)
          => /\ c.ret = NilError
             /\ PortsNamed(ports, c.hostNicName) = {}
             /\ ~HostLinkPresent(c.hostNicName)
             /\ \A l \in c.pre.links :
                  (l.ns = HostNS /\ l.name = c.hostNicName)
                     => \A m \in links : m.index # l.index /\ m.index # l.peer

\* The second call of: a provisioning that failed and whose rollback failed
\* too, leaving its link and its port, and the teardown that removed both.
C8_Witness ==
    \E t \in callers :
       LET c == call[t] IN
       /\ TeardownReturned(c) /\ ~c.faulted /\ c.ret = NilError
       /\ c.prev.op = "configureNic" /\ c.prev.containerID = c.containerID
       /\ ~c.prev.ok
       /\ ncalls = 2
       /\ LinksNamed(c.pre.links, HostNS, c.hostNicName) # {}
       /\ PortsNamed(c.pre.ports, c.hostNicName) # {}
       /\ links = {} /\ ports = {}

\* C9, as claimed: no step of a call for one containerID creates, deletes or
\* changes a link or a port of another containerID.
LinksOfOthers(L, id) == {l \in L : l.owner # id}

PortsOfOthers(P, id) == {q \in P : q.owner # id}

C9_NoInterference ==
    [][\A t \in callers :
          (call'[t] # call[t] /\ call'[t].op # "none")
             => /\ LinksOfOthers(links', call'[t].containerID)
                     = LinksOfOthers(links, call'[t].containerID)
                /\ PortsOfOthers(ports', call'[t].containerID)
                     = PortsOfOthers(ports, call'[t].containerID)]_vars

\* C10: in every call the host name is the first 12 characters of the
\* containerID followed by "_h" and the container name the same 12 characters
\* followed by "_c"; the two differ; a call for the containerID of the
\* caller's previous call derives the same host name; and
\* "abc123def456ghi789" gives "abc123def456_h".
C10_NicNames ==
    \A t \in callers :
       LET c  == call[t]
           id == c.containerID IN
       c.op # "none"
          => /\ Len(id) >= 12
             /\ c.hostNicName = SubSeq(id, 1, 12) \o <<"_", "h">>
             /\ c.op = "configureNic"
                  => /\ c.containerNicName = SubSeq(id, 1, 12) \o <<"_", "c">>
                     /\ c.containerNicName # c.hostNicName
             /\ generateNicName(id)[1] # generateNicName(id)[2]
             /\ (c.prev.op # "none" /\ c.prev.containerID = id)
                  => c.prev.hostNicName = c.hostNicName
             /\ id = ID_A
                  => c.hostNicName = <<"a","b","c","1","2","3","d","e","f","4","5","6","_","h">>

\* A teardown of "abc123def456ghi789" right after its provisioning looks for
\* "abc123def456_h", the link the provisioning created.
C10_Witness ==
    \E t \in callers :
       LET c == call[t] IN
       /\ c.op = "deleteNic" /\ c.containerID = ID_A
       /\ c.prev.op = "configureNic" /\ c.prev.containerID = ID_A /\ c.prev.ok
       /\ c.hostNicName = <<"a","b","c","1","2","3","d","e","f","4","5","6","_","h">>
       /\ \E l \in links : l.name = c.hostNicName /\ l.owner = ID_A

\* The ends of the pairs both ends of which are in the link table: h the end
\* that still carries the host name of its creator, p its peer.
PairsPresent ==
    {<<h, p>> \in links \X links :
        p.index = h.peer /\ h.name = generateNicName(h.owner)[1]}

\* C11, as claimed: in every reachable state in which both ends of a pair
\* exist, the two carry the same hardware address.
C11_PairSharesAddressAlways ==
    \A hp \in PairsPresent : hp[1].hwaddr = hp[2].hwaddr

\* C11, amended: in every reachable state in which both ends of a pair exist
\* and the container end is up (the last step of configureNic, so from every
\* successful return until the pair is deleted), the two carry the same
\* hardware address, the one parsed from mac.  Between the creation of the
\* pair and the assignment to the container end, and after a failed
\* configureNic whose deferred deletion failed, the two addresses differ.
C11_PairSharesAddressOnceUp ==
    /\ \A hp \in PairsPresent :
          hp[2].up => /\ hp[1].hwaddr = hp[2].hwaddr
                      /\ hp[1].hwaddr = ParseMAC(MAC_OK).hw
    /\ \A t \in callers :
          LET c == call[t] IN
          (c.op = "configureNic" /\ c.pc \in {"AddPort", "HostSetHardwareAddr",
                                              "ContainerSetHardwareAddr"})
             => \A hp \in PairsPresent :
                   hp[1].index = c.vethIndex => hp[1].hwaddr # hp[2].hwaddr

\* A pair provisioned with 02:11:22:33:44:55 outlives the call that made it:
\* a later call is under way and both ends carry that address.
C11_Witness ==
    /\ ncalls >= 2
    /\ \E hp \in PairsPresent :
          /\ hp[2].up /\ hp[1].up
          /\ hp[2].ns \in PodNetNS
          /\ hp[1].hwaddr = <<2, 17, 34, 51, 68, 85>>
          /\ hp[2].hwaddr = <<2, 17, 34, 51, 68, 85>>
          /\ \A t \in callers : call[t].vethIndex # hp[1].index

\* The positions of a call inside the closure that ns.WithNetNSPath runs.
ClosurePcs ==
    {"LinkSetName", "ParseAddr", "AddrAdd", "ContainerSetHardwareAddr",
     "ContainerSetUp", "leaveNS"}

\* C12: a call is in the pod's namespace exactly while it is inside the
\* closure of ns.WithNetNSPath; at every other position, so before the
\* closure, at the deferred deletion and at the return, whatever the path
\* that left the closure, it is in the host namespace it started in.
C12_NamespaceRestored ==
    \A t \in callers :
       LET c == call[t] IN
       /\ c.pc \notin ClosurePcs => c.curNs = HostNS
       /\ (c.pc \in ClosurePcs /\ c.pc # "leaveNS")
             => (c.curNs = c.netns /\ c.netns \in PodNetNS)
       /\ (c.pc = "returned" /\ "rollback LinkDel" \in Elems(c.log)
             /\ c.rollbackErr = Nil /\ PairCreated(c))
             => OwnPair(c) = {}

\* A provisioning failed inside the closure, at the parse of the address;
\* back in the host namespace its deferred deletion found the host end and
\* removed the pair.
C12_Witness ==
    \E t \in callers :
       LET c == call[t] IN
       /\ ProvisionReturned(c)
       /\ c.ret.msg = "can not parse"
       /\ "WithNetNSPath" \in Elems(c.log)
       /\ c.curNs = HostNS
       /\ c.rollbackErr = Nil
       /\ OwnPair(c) = {}

\* The call's add-port succeeded: it was attempted and the call went on.
BindSucceeded(c) ==
    /\ "add-port" \in Elems(c.log)
    /\ c.ret.msg # "add nic to ovs failed"

\* The port the call bound: hostName on br-int, tagged for the pod.
BoundPort(c) ==
    [name |-> c.hostNicName, ifaceId |-> IfaceId(c.podName, c.podNamespace),
     owner |-> c.containerID]

\* C13, as claimed: whenever configureNic returns an error after its add-port
\* succeeded, the port hostName is still on br-int and the host link is
\* deleted.
C13_PortKeptLinkDeleted ==
    \A t \in callers :
       LET c == call[t] IN
       (ProvisionReturned(c) /\ BindSucceeded(c) /\ c.ret # NilError)
          => /\ BoundPort(c) \in ports
             /\ ~HostLinkPresent(c.hostNicName)

\* C13, amended: whenever configureNic returns an error after its add-port
\* succeeded, the port table is the one the call found plus the port
\* hostName it bound, and the deferred deletion was the call's last
\* operation; unless that deletion itself failed, the host link is deleted,
\* so that the port is left without its interface.
C13_PortKeptAfterRollback ==
    \A t \in callers :
       LET c == call[t] IN
       (ProvisionReturned(c) /\ BindSucceeded(c) /\ c.ret # NilError)
          => /\ BoundPort(c) \in ports
             /\ BoundPort(c) \notin c.pre.ports
             /\ ports = c.pre.ports \cup {BoundPort(c)}
             /\ c.log[Len(c.log)] = "rollback LinkDel"
             /\ (c.rollbackErr = Nil => ~HostLinkPresent(c.hostNicName))

\* A provisioning with a malformed address failed after the bind; the pair is
\* gone and the port is left on br-int.
C13_Witness ==
    \E t \in callers :
       LET c == call[t] IN
       /\ ProvisionReturned(c) /\ BindSucceeded(c)
       /\ c.ip = IP_BAD /\ c.ret.msg = "can not parse"
       /\ c.rollbackErr = Nil
       /\ OwnPair(c) = {} /\ ~HostLinkPresent(c.hostNicName)
       /\ PortsNamed(ports, c.hostNicName) = {BoundPort(c)}

\* The operations of the closure on the container end after its rename.
ContainerConfigOps ==
    {"AddrAdd", "container LinkSetHardwareAddr", "container LinkSetUp"}

\* The container end of the call's pair is in the pod's namespace under the
\* name eth0.
MovedAndRenamed(c) ==
    \E l \in links :
       /\ l.index = c.containerLink
       /\ l.ns = c.netns
       /\ l.name = <<"e","t","h","0">>

\* C14: in every call, an address assignment, a MAC assignment or a link-up
\* of the container end comes after the rename to eth0, which comes after the
\* move into the pod's namespace; whenever the call is about to do one of the
\* three, or has done one, the container end is in the pod's namespace under
\* the name eth0 (until the deferred deletion); a call whose rename failed
\* has done none of the three.
C14_RenameBeforeConfiguration ==
    \A t \in callers :
       LET c == call[t] IN
       /\ \A i \in 1..Len(c.log) :
             c.log[i] \in ContainerConfigOps
                => /\ i > 2
                   /\ \E j \in 1..(i-1) :
                        /\ c.log[j] = "LinkSetName"
                        /\ \E k \in 1..(j-1) : c.log[k] = "LinkSetNsFd"
       /\ (c.pc \in {"ParseAddr", "AddrAdd", "ContainerSetHardwareAddr", "ContainerSetUp"}
             \/ (Elems(c.log) \cap ContainerConfigOps # {}
                   /\ "rollback LinkDel" \notin Elems(c.log)))
             => MovedAndRenamed(c)
       /\ (c.op = "configureNic" /\ c.ret.msg = "" /\ c.err # Nil)
             => /\ "LinkSetName" \in Elems(c.log)
                /\ Elems(c.log) \cap ContainerConfigOps = {}
                /\ ~MovedAndRenamed(c)

\* A rename refused by the kernel: the call returned the bare error after the
\* move and the rename attempt, with no address, MAC or link-up on the
\* container end.
C14_Witness ==
    \E t \in callers :
       LET c == call[t] IN
       /\ ProvisionReturned(c)
       /\ c.ret.msg = "" /\ c.err # Nil
       /\ c.log = <<"LinkAdd", "add-port", "LinkByName", "host LinkSetHardwareAddr",
                    "host LinkSetUp", "GetNS", "LinkByName", "LinkSetNsFd",
                    "WithNetNSPath", "LinkSetName", "rollback LinkDel">>

\* The external operations of configureNic and of deleteNic in the order of
\* the code, and for each the errors a call returns when it stops there (the
\* parses of mac and of ipCIDR are no external operations: they follow
\* add-port and the rename).
ProvisionOrder ==
    <<"LinkAdd", "add-port", "LinkByName", "host LinkSetHardwareAddr",
      "host LinkSetUp", "GetNS", "LinkByName", "LinkSetNsFd", "WithNetNSPath",
      "LinkSetName", "AddrAdd", "container LinkSetHardwareAddr",
      "container LinkSetUp">>

ProvisionStage ==
    <<{"failed to crate veth"}, {"add nic to ovs failed", "failed to parse mac"},
      {"can not find host nic"}, {"can not set mac address to host nic"},
      {"can not set host nic up"}, {"failed to open netns"},
      {"can not find container nic"}, {"failed to link netns"},
      {"error switching to ns"}, {"", "can not parse"},
      {"can not add address to container nic"},
      {"can not set mac address to container nic"},
      {"can not set container nic up"}>>

TeardownOrder == <<"del-port", "LinkByName", "LinkDel">>

TeardownStage ==
    <<{"failed to delete ovs port"}, {"find host link failed"},
      {"delete host link failed"}>>

\* The operations of a call but its deferred deletion.
Body(c) ==
    IF c.log # <<>> /\ c.log[Len(c.log)] = "rollback LinkDel"
    THEN SubSeq(c.log, 1, Len(c.log) - 1)
    ELSE c.log

IsPrefix(s, q) == Len(s) <= Len(q) /\ s = SubSeq(q, 1, Len(s))

\* C15: the operations a call has done are a prefix of the order of the
\* code, each done once, followed by the deferred deletion at most; a call
\* that holds an error does no further step but leaving the closure, the
\* deferred deletion and the return; the error a call returns is the one of
\* the operation it stopped at, and a call that returns nil has done them all
\* (deleteNic: or found no host link).
C15_NoRetryFirstFailure ==
    \A t \in callers :
       LET c == call[t]
           n == Len(Body(c)) IN
       /\ c.op = "configureNic" => IsPrefix(Body(c), ProvisionOrder)
       /\ c.op = "deleteNic" => (IsPrefix(c.log, TeardownOrder) /\ Body(c) = c.log)
       /\ c.err # Nil => c.pc \in {"leaveNS", "defer", "returned"}
       /\ (ProvisionReturned(c) /\ c.ret # NilError)
             => /\ n >= 1
                /\ c.ret.msg \in ProvisionStage[n]
                /\ c.ret.cause = c.err
                /\ c.log = Body(c) \o <<"rollback LinkDel">>
       /\ (ProvisionReturned(c) /\ c.ret = NilError)
             => c.log = ProvisionOrder
       /\ (TeardownReturned(c) /\ c.ret # NilError)
             => /\ n >= 1
                /\ c.ret.msg \in TeardownStage[n]
                /\ c.ret.cause = c.err
       /\ (TeardownReturned(c) /\ c.ret = NilError)
             => \/ c.log = TeardownOrder
                \/ c.log = <<"del-port", "LinkByName">> /\ c.err = "Link not found"

\* A provisioning stopped at its fifth operation, bringing the host end up,
\* and returned that error after the deferred deletion.
C15_Witness ==
    \E t \in callers :
       LET c == call[t] IN
       /\ ProvisionReturned(c)
       /\ c.ret.msg = "can not set host nic up"
       /\ c.log = <<"LinkAdd", "add-port", "LinkByName", "host LinkSetHardwareAddr",
                    "host LinkSetUp", "rollback LinkDel">>

\* C16, as claimed: every error configureNic or deleteNic returns carries the
\* stage that failed and the underlying error, the error of a failed rename
\* inside the pod's namespace included.
C16_ErrorsCarryStageAndCause ==
    \A t \in callers :
       LET c == call[t] IN
       (c.pc = "returned" /\ c.ret # NilError)
          => /\ c.ret.msg # ""
             /\ c.ret.cause # Nil

\* The call's lookup of the host link was attempted.
LookupAttempted(c) == Len(c.log) >= 2 /\ c.log[2] = "LinkByName"

\* C17: a deleteNic whose lookup finds no link hostName returns nil; one
\* whose lookup fails for another reason returns the error of the lookup;
\* both return right after the lookup, with no LinkDel attempted and the link
\* table as they found it.  A deleteNic attempts LinkDel only for a host link
\* its lookup found.
C17_LookupOutcomes ==
    \A t \in callers :
       LET c     == call[t]
           found == LinksNamed(c.pre.links, HostNS, c.hostNicName) # {} IN
       (TeardownReturned(c) /\ LookupAttempted(c))
          => /\ c.err = "Link not found"
                  => /\ c.ret = NilError
                     /\ ~found
                     /\ c.log = <<"del-port", "LinkByName">>
                     /\ links = c.pre.links
             /\ (~found /\ ~c.faulted)
                  => (c.ret = NilError /\ c.err = "Link not found")
             /\ c.ret.msg = "find host link failed"
                  => /\ c.ret.cause # "Link not found"
                     /\ c.ret.cause = c.err
                     /\ c.log = <<"del-port", "LinkByName">>
                     /\ links = c.pre.links
             /\ "LinkDel" \in Elems(c.log)
                  => /\ found
                     /\ c.hostLink = LinkByName(c.pre.links, HostNS, c.hostNicName)
                     /\ c.ret.msg # "find host link failed"

\* A teardown whose lookup failed for a reason other than not-found: it
\* returned the lookup error and the host link is still there.
C17_Witness ==
    \E t \in callers :
       LET c == call[t] IN
       /\ TeardownReturned(c)
       /\ c.ret.msg = "find host link failed" /\ c.ret.cause = "EIO"
       /\ c.log = <<"del-port", "LinkByName">>
       /\ HostLinkPresent(c.hostNicName)
       /\ links = c.pre.links

\* C18: in every deleteNic, del-port is the first operation, before the
\* lookup and the deletion of the host link; a deleteNic whose del-port fails
\* returns that error with no lookup and no deletion attempted and leaves the
\* link table and the port table as it found them; a deleteNic that attempted
\* the lookup or the deletion, or changed the link table, has no port
\* hostName left on br-int.
C18_PortRemovedFirst ==
    \A t \in callers :
       LET c == call[t] IN
       c.op = "deleteNic"
          => /\ c.log # <<>> => c.log[1] = "del-port"
             /\ \A i \in 1..Len(c.log) : c.log[i] \in {"LinkByName", "LinkDel"} => i > 1
             /\ (c.pc = "returned" /\ c.ret.msg = "failed to delete ovs port")
                  => /\ c.log = <<"del-port">>
                     /\ links = c.pre.links
                     /\ ports = c.pre.ports
             /\ (c.pc \in {"DelLinkByName", "DelLinkDel"}
                   \/ Len(c.log) >= 2 \/ links # c.pre.links)
                  => /\ PortsNamed(ports, c.hostNicName) = {}
                     /\ c.ret.msg # "failed to delete ovs port"
                     /\ ports = DelPort(c.pre.ports, c.hostNicName)

\* A teardown of a provisioned container whose del-port failed: it returned
\* that error at once, the port and the host link still there.
C18_Witness ==
    \E t \in callers :
       LET c == call[t] IN
       /\ TeardownReturned(c)
       /\ c.ret.msg = "failed to delete ovs port"
       /\ c.log = <<"del-port">>
       /\ PortsNamed(ports, c.hostNicName) # {}
       /\ HostLinkPresent(c.hostNicName)
       /\ links = c.pre.links /\ ports = c.pre.ports

\* C19, as claimed: a configureNic whose pair creation fails returns the
\* creation error, has issued no switch command, and leaves the link table
\* and the port table as it found them.
C19_CreateFailureChangesNothing ==
    \A t \in callers :
       LET c == call[t] IN
       (ProvisionReturned(c) /\ ~PairCreated(c))
          => /\ c.ret.msg = "failed to crate veth"
             /\ "add-port" \notin Elems(c.log)
             /\ ports = c.pre.ports
             /\ links = c.pre.links

====
